---- MODULE Spec2Model ----
(***************************************************************************)
(* Model of the toast admission / sequencing controller                    *)
(* (ToastManagerSingleton, src/src/Toast.tsx) together with the Toast      *)
(* component that implements the display driver (showToast / hideToast /   *)
(* completeHideAnimation, same file).                                      *)
(*                                                                         *)
(* Every handler of the program is one action.  A handler is a sequence of *)
(* synchronous calls, so each call is an operator from a state record to a *)
(* state record and an action commits the record its handler ends with.    *)
(*                                                                         *)
(* Asynchronous parts of the program:                                      *)
(*   - setTimeout(..., 0) in showToast             -> action Tick          *)
(*   - the auto-dismiss setTimeout                 -> action TimerFire     *)
(*   - the end of withTiming(80)                   -> action EnterComplete *)
(*   - the end of withTiming(-100, .., callback)   -> action ExitComplete  *)
(*   - the callback of an exit animation that was cancelled or overwritten *)
(*     (react-native-reanimated calls an animation's callback with         *)
(*     finished = false when the animation is cancelled; the callback in   *)
(*     hideToast ignores that argument)            -> CancelledCallback    *)
(* Durations are options of the caller, so the order of these events and   *)
(* of the clock is not constrained, except that a timeout of 0 ms elapses  *)
(* before an animation (of a positive duration) reaches its target.        *)
(***************************************************************************)
EXTENDS Integers, Sequences, FiniteSets, TLC

(***************************** program constants ***************************)
MAX_QUEUE_SIZE == 2
THROTTLE_DELAY == 300

(********************************* bounds **********************************)
MaxReq     == 4      \* show() calls with a valid message in one run
MaxDismiss == 1      \* hide() calls in one run
MaxTime    == 600    \* last clock value; the clock advances by THROTTLE_DELAY
MaxRemountReq == 3   \* show() calls with a valid message in one run with a remount

(********************************* inputs **********************************)
Comps      == {"c1"}                \* Toast component instances
NoRef      == "null"                \* toastRef = null
Whitespace == {" ", "\t"}
Msgs       == {<<>>, <<" ">>, <<" ", "a", " ">>}
ToastType  == {"info", "success", "error"}
ReqTypes   == {"info"}              \* the types the requests of a run draw from
NoCb       == [defined |-> FALSE, user |-> 0]   \* hideToast() without callback

VARIABLES
  toastRef,       \* ToastManagerSingleton.toastRef: NoRef or the component registered
  listeners,      \* ToastManagerSingleton.listeners: the readiness waiters (by request id)
  isAnimating,    \* ToastManagerSingleton.isAnimating
  queue,          \* ToastManagerSingleton.queue
  lastToastTime,  \* ToastManagerSingleton.lastToastTime
  now,            \* Date.now()
  comp,           \* the state of each Toast component instance
  nextId,         \* history: the id of the next valid request (ids count the valid show() calls)
  nextCb,         \* history: the id of the next hide() call
  lastDrained,    \* history: id of the last request displayed from the queue (0: none)
  lastOp,         \* the handler that ran last: its name and outcome
  displays,       \* the toastRef.show calls the last handler made, in order
  callbacks,      \* the callers' hide callbacks the last handler invoked, in order
  notifications,  \* the readiness waiters the last handler invoked, in order
  setAnimatingCalls,  \* the setAnimating calls the last handler made, in order of return
  lastDisplay,    \* history: the request and the time of the last toastRef.show call
  retracted,      \* the request whose exit transition the last handler completed (0: none)
  processQueueCalls   \* the processQueue calls the last handler made, in order of return

vars == <<toastRef, listeners, isAnimating, queue, lastToastTime, now, comp,
          nextId, nextCb, lastDrained, lastOp, displays, callbacks, notifications,
          setAnimatingCalls, lastDisplay, retracted, processQueueCalls>>

Cur == [toastRef |-> toastRef, listeners |-> listeners, isAnimating |-> isAnimating,
        queue |-> queue, lastToastTime |-> lastToastTime, now |-> now, comp |-> comp,
        nextId |-> nextId, nextCb |-> nextCb, lastDrained |-> lastDrained,
        lastOp |-> lastOp, displays |-> <<>>, callbacks |-> <<>>, notifications |-> <<>>,
        setAnimatingCalls |-> <<>>, lastDisplay |-> lastDisplay, retracted |-> 0,
        processQueueCalls |-> <<>>]

Commit(s) ==
  /\ toastRef' = s.toastRef
  /\ listeners' = s.listeners
  /\ isAnimating' = s.isAnimating
  /\ queue' = s.queue
  /\ lastToastTime' = s.lastToastTime
  /\ now' = s.now
  /\ comp' = s.comp
  /\ nextId' = s.nextId
  /\ nextCb' = s.nextCb
  /\ lastDrained' = s.lastDrained
  /\ lastOp' = s.lastOp
  /\ displays' = s.displays
  /\ callbacks' = s.callbacks
  /\ notifications' = s.notifications
  /\ setAnimatingCalls' = s.setAnimatingCalls
  /\ lastDisplay' = s.lastDisplay
  /\ retracted' = s.retracted
  /\ processQueueCalls' = s.processQueueCalls

(****************************** String.trim ********************************)
RECURSIVE TrimLeft(_)
TrimLeft(m) == IF m # <<>> /\ Head(m) \in Whitespace THEN TrimLeft(Tail(m)) ELSE m

RECURSIVE TrimRight(_)
TrimRight(m) ==
  IF m # <<>> /\ m[Len(m)] \in Whitespace THEN TrimRight(SubSeq(m, 1, Len(m) - 1)) ELSE m

Trim(m) == TrimRight(TrimLeft(m))

(*********************** the Toast component's state ***********************)
NoAnim == [kind |-> "none", cb |-> NoCb]

InitComp ==
  [mounted     |-> "never",    \* "never", "mounted", "unmounted"
   isAnimating |-> FALSE,      \* isAnimating.current
   transY      |-> "off",      \* transY.value: "off" = -100, "on" = 80, "mid" = in between
   anim        |-> NoAnim,     \* the animation running on transY, with its callback's argument
   timer       |-> "null",     \* timer.current: "null", "live" (pending), "dead" (cleared or fired)
   orphans     |-> 0,          \* pending auto-dismiss timers timer.current no longer refers to
   ticks       |-> 0,          \* pending setTimeout(..., 0) callbacks of showToast
   cancelled   |-> <<>>,       \* callbacks of cancelled exit animations, not yet delivered
   visible     |-> FALSE,      \* config.visible
   text        |-> <<>>]       \* config.text (<<>> for undefined)

\* The lifecycle state of the toast a component presents.
Lifecycle(cs) ==
  IF cs.anim.kind = "exit" THEN "Exiting"
  ELSE IF cs.ticks > 0 \/ cs.anim.kind = "enter" THEN "Entering"
  ELSE IF cs.transY # "off" THEN "Visible"
  ELSE "Hidden"

InProgress(s) == \E c \in DOMAIN s.comp : Lifecycle(s.comp[c]) # "Hidden"

\* cancelAnimation(transY), or the assignment of a new animation to transY:
\* an exit animation that is running is cancelled and its callback is queued
\* for delivery (finished = false).
CancelTransY(cs) ==
  IF cs.anim.kind = "exit"
  THEN [cs EXCEPT !.cancelled = Append(@, cs.anim.cb), !.anim = NoAnim]
  ELSE [cs EXCEPT !.anim = NoAnim]

\* clearTimeout(timer.current): the handle stays in timer.current
ClearTimer(cs) == IF cs.timer = "live" THEN [cs EXCEPT !.timer = "dead"] ELSE cs


(************************** history bookkeeping ****************************)
\* blank: the handler is a show call whose message is empty after trim()
Op(op, outcome) == [op |-> op, outcome |-> outcome, blank |-> FALSE]

\* one toastRef.show(message, type, options) call made by the controller
\* queued: the request comes from the queue; overlap: a toast is in progress;
\* after: the number of hide callbacks the handler has invoked before the call;
\* notified: the number of readiness waiters it has invoked before the call
LogDisplay(s, e, queued) ==
  [s EXCEPT !.lastDrained = IF queued THEN e.id ELSE @,
            !.lastDisplay = [id |-> e.id, at |-> s.now],
            !.displays = Append(@, [id      |-> e.id,
                                    message |-> e.message,
                                    type    |-> e.type,
                                    queued  |-> queued,
                                    overlap |-> InProgress(s),
                                    after   |-> Len(s.callbacks),
                                    notified |-> Len(s.notifications)])]

\* one setAnimating(status) call, recorded when it returns.  before is the
\* state it was called in, after the state it returns in.
\* waiting: the id of the oldest queued request when a driver is registered
\* (0: none); displayed: the requests the call handed to toastRef.show
LogSetAnimating(before, after, status) ==
  [after EXCEPT !.setAnimatingCalls =
     Append(@, [status    |-> status,
                waiting   |-> IF before.toastRef # NoRef /\ before.queue # <<>>
                              THEN Head(before.queue).id ELSE 0,
                rest      |-> IF before.queue # <<>> THEN Tail(before.queue) ELSE <<>>,
                displayed |-> [i \in 1..(Len(after.displays) - Len(before.displays)) |->
                                 after.displays[Len(before.displays) + i].id],
                queue     |-> after.queue,
                busy      |-> after.isAnimating])]

(********************* ToastManagerSingleton, Toast ************************)
\* mutant: no validity test
isValidToastRequestAlways(message) == TRUE

\* mutant: the validity test without trim()
isValidToastRequestNoTrim(message) == message # <<>>

\* ToastManagerSingleton.isValidToastRequest
isValidToastRequest(message) == Trim(message) # <<>>

RECURSIVE ProcessQueue(_)

\* mutant: setAnimating that only stores the flag
SetAnimatingNoDrain(s, status) == [s EXCEPT !.isAnimating = status]

\* mutant: setAnimating with its test inverted
SetAnimatingInverted(s, status) ==
  LET s1 == [s EXCEPT !.isAnimating = status]
  IN  LogSetAnimating(s, IF status THEN ProcessQueue(s1) ELSE s1, status)

\* ToastManagerSingleton.setAnimating
SetAnimating(s, status) ==
  LET s1 == [s EXCEPT !.isAnimating = status]
  IN  LogSetAnimating(s, IF ~status THEN ProcessQueue(s1) ELSE s1, status)

\* Toast.updateAnimationStatus
UpdateAnimationStatus(s, c, status) ==
  SetAnimating([s EXCEPT !.comp[c].isAnimating = status], status)

\* Toast.showToast
ShowToast(s, c, text, type) ==
  IF text = <<>> \/ Trim(text) = <<>>
  THEN UpdateAnimationStatus(s, c, FALSE)
  ELSE LET s1 == [s EXCEPT !.comp[c] = CancelTransY(ClearTimer(@))]
           s2 == UpdateAnimationStatus(s1, c, TRUE)
       IN  [s2 EXCEPT !.comp[c].visible = TRUE,
                      !.comp[c].text = text,
                      !.comp[c].ticks = @ + 1]

\* the show of the object a component registers (refObject.show)
RefShow(s, c, message, type) ==
  IF message = <<>> \/ Trim(message) = <<>>
  THEN UpdateAnimationStatus(s, c, FALSE)
  ELSE ShowToast(s, c, message, type)

\* the controller's fields in state record s
Fields(s) == [toastRef |-> s.toastRef, isAnimating |-> s.isAnimating,
              queue |-> s.queue, lastToastTime |-> s.lastToastTime,
              listeners |-> s.listeners]

\* one processQueue() call, recorded when it returns: the controller's fields
\* when it was called and when it returns, the time, and the requests it (or
\* the call it makes to skip an empty entry) handed to toastRef.show
LogProcessQueue(before, after) ==
  [after EXCEPT !.processQueueCalls =
     Append(@, [before    |-> Fields(before),
                after     |-> Fields(after),
                now       |-> before.now,
                displayed |-> [i \in 1..(Len(after.displays) - Len(before.displays)) |->
                                 after.displays[Len(before.displays) + i]]])]

\* mutant: processQueue without the test of isAnimating
ProcessQueueIgnoresBusy(s) ==
  LogProcessQueue(s,
    IF Len(s.queue) > 0 /\ s.toastRef # NoRef
    THEN LET nextToast == Head(s.queue)
             s1 == [s EXCEPT !.queue = Tail(@)]
         IN  IF nextToast.message # <<>> /\ Trim(nextToast.message) # <<>>
             THEN LET s2 == [s1 EXCEPT !.isAnimating = TRUE, !.lastToastTime = s1.now]
                  IN  RefShow(LogDisplay(s2, nextToast, TRUE), s2.toastRef,
                              nextToast.message, nextToast.type)
             ELSE ProcessQueue(s1)
    ELSE s)

\* mutant: processQueue that leaves the entry it displays in the queue
ProcessQueueNoShift(s) ==
  LogProcessQueue(s,
    IF ~s.isAnimating /\ Len(s.queue) > 0 /\ s.toastRef # NoRef
    THEN LET nextToast == Head(s.queue)
         IN  IF nextToast.message # <<>> /\ Trim(nextToast.message) # <<>>
             THEN LET s2 == [s EXCEPT !.isAnimating = TRUE, !.lastToastTime = s.now]
                  IN  RefShow(LogDisplay(s2, nextToast, TRUE), s2.toastRef,
                              nextToast.message, nextToast.type)
             ELSE ProcessQueue([s EXCEPT !.queue = Tail(@)])
    ELSE s)

\* mutant: processQueue without this.lastToastTime = Date.now()
ProcessQueueNoStamp(s) ==
  IF ~s.isAnimating /\ Len(s.queue) > 0 /\ s.toastRef # NoRef
  THEN LET nextToast == Head(s.queue)
           s1 == [s EXCEPT !.queue = Tail(@)]
       IN  IF nextToast.message # <<>> /\ Trim(nextToast.message) # <<>>
           THEN LET s2 == [s1 EXCEPT !.isAnimating = TRUE]
                IN  RefShow(LogDisplay(s2, nextToast, TRUE), s2.toastRef,
                            nextToast.message, nextToast.type)
           ELSE ProcessQueue(s1)
  ELSE s

\* ToastManagerSingleton.processQueue
ProcessQueue(s) ==
  LogProcessQueue(s,
    IF ~s.isAnimating /\ Len(s.queue) > 0 /\ s.toastRef # NoRef
    THEN LET nextToast == Head(s.queue)
             s1 == [s EXCEPT !.queue = Tail(@)]
         IN  IF nextToast.message # <<>> /\ Trim(nextToast.message) # <<>>
             THEN LET s2 == [s1 EXCEPT !.isAnimating = TRUE, !.lastToastTime = s1.now]
                  IN  RefShow(LogDisplay(s2, nextToast, TRUE), s2.toastRef,
                              nextToast.message, nextToast.type)
             ELSE ProcessQueue(s1)
    ELSE s)

\* the callback ToastManagerSingleton.hide hands to toastRef.hide; user = 0
\* when hide was called without a callback.  finished tells whether the call
\* comes with the retraction complete (or with nothing to retract).
WrappedCallback(s, user, finished) ==
  LET s1 == [s EXCEPT !.isAnimating = FALSE]
      s2 == IF user # 0
            THEN [s1 EXCEPT !.callbacks = Append(@, [id |-> user, finished |-> finished])]
            ELSE s1
  IN  ProcessQueue(s2)

\* mutant: hideToast without its already-hidden branch
HideToastAlwaysAnimates(s, c, cb) ==
  LET cs == s.comp[c]
      c1 == IF cs.timer # "null" THEN [cs EXCEPT !.timer = "null"] ELSE cs
      c2 == CancelTransY(c1)
  IN  [s EXCEPT !.comp[c] = [c2 EXCEPT !.anim = [kind |-> "exit", cb |-> cb]]]

\* Toast.hideToast
HideToast(s, c, cb) ==
  LET cs == s.comp[c]
  IN  IF ~cs.isAnimating /\ cs.transY = "off"
      THEN IF cb.defined THEN WrappedCallback(s, cb.user, TRUE) ELSE s
      ELSE LET c1 == IF cs.timer # "null" THEN [cs EXCEPT !.timer = "null"] ELSE cs
               c2 == CancelTransY(c1)
           IN  [s EXCEPT !.comp[c] = [c2 EXCEPT !.anim = [kind |-> "exit", cb |-> cb]]]

\* Toast.completeHideAnimation (with resetConfig)
CompleteHideAnimation(s, c, cb, finished) ==
  LET s1 == UpdateAnimationStatus(s, c, FALSE)
      s2 == [s1 EXCEPT !.comp[c].visible = FALSE, !.comp[c].text = <<>>]
  IN  IF cb.defined THEN WrappedCallback(s2, cb.user, finished) ELSE s2

\* the listeners.forEach of setToastRef: every waiter registered by show is
\* (ref) => this.processQueue(); a Set iterates in insertion order
RECURSIVE NotifyAll(_, _)
NotifyAll(s, ls) ==
  IF ls = {} THEN s
  ELSE LET l == CHOOSE x \in ls : \A y \in ls : x <= y
           s1 == ProcessQueue([s EXCEPT !.notifications = Append(@, l)])
       IN  NotifyAll(s1, ls \ {l})

\* mutant: setToastRef without listeners.clear()
SetToastRefNoClear(s, ref) ==
  IF ref # NoRef
  THEN LET s1 == [s EXCEPT !.toastRef = ref]
       IN  ProcessQueue(NotifyAll(s1, s1.listeners))
  ELSE s

\* ToastManagerSingleton.setToastRef
SetToastRef(s, ref) ==
  IF ref # NoRef
  THEN LET s1 == [s EXCEPT !.toastRef = ref]
           s2 == NotifyAll(s1, s1.listeners)
       IN  ProcessQueue([s2 EXCEPT !.listeners = {}])
  ELSE s

\* mutant: onReady that forgets the waiter when no driver is registered
OnReadyNoListener(s, id) ==
  IF s.toastRef # NoRef
  THEN ProcessQueue([s EXCEPT !.notifications = Append(@, id)])
  ELSE s

\* ToastManagerSingleton.onReady, for the waiter of request id
OnReady(s, id) ==
  IF s.toastRef # NoRef
  THEN ProcessQueue([s EXCEPT !.notifications = Append(@, id)])
  ELSE [s EXCEPT !.listeners = @ \cup {id}]

\* mutant: no capacity test
HasRoomUnbounded(s) == TRUE

\* mutant: the capacity test off by one
HasRoomOffByOne(s) == Len(s.queue) <= MAX_QUEUE_SIZE

\* this.queue.length < MAX_QUEUE_SIZE
HasRoom(s) == Len(s.queue) < MAX_QUEUE_SIZE

\* mutant: the request is put at the head of the queue
PushFront(s, e) == [s EXCEPT !.queue = <<e>> \o @]

\* this.queue.push({ message, type, options })
Push(s, e) == [s EXCEPT !.queue = Append(@, e)]

\* mutant: the throttle test switched off
ThrottledNever(s) == FALSE

\* now - this.lastToastTime < THROTTLE_DELAY
Throttled(s) == s.now - s.lastToastTime < THROTTLE_DELAY

\* mutant: the admit branch also keeps the request in the queue
AdmitAndPush(s, e) ==
  LET s1 == [s EXCEPT !.isAnimating = TRUE, !.lastToastTime = s.now]
  IN  Push(RefShow(LogDisplay(s1, e, FALSE), s1.toastRef, e.message, e.type), e)

\* mutant: the admit branch without this.lastToastTime = now
AdmitNoStamp(s, e) ==
  LET s1 == [s EXCEPT !.isAnimating = TRUE]
  IN  RefShow(LogDisplay(s1, e, FALSE), s1.toastRef, e.message, e.type)

\* the admit branch of show: the request is handed to toastRef.show
Admit(s, e) ==
  LET s1 == [s EXCEPT !.isAnimating = TRUE, !.lastToastTime = s.now]
  IN  RefShow(LogDisplay(s1, e, FALSE), s1.toastRef, e.message, e.type)

\* ToastManagerSingleton.show
Show(s, message, type) ==
  LET id == s.nextId
      e  == [id |-> id, message |-> message, type |-> type]
      s0 == [s EXCEPT !.nextId = @ + 1]
      Done(r, outcome) ==
        [r EXCEPT !.lastOp = [op |-> "show", outcome |-> outcome,
                              blank |-> Trim(message) = <<>>]]
  IN  IF ~isValidToastRequest(message)
      THEN Done(s, "ignored")
      ELSE IF Throttled(s0)
      THEN IF HasRoom(s0)
           THEN Done(Push(s0, e), "queued")
           ELSE Done(s0, "dropped")
      ELSE IF s0.toastRef # NoRef /\ ~s0.isAnimating
      THEN Done(Admit(s0, e), "admitted")
      ELSE IF HasRoom(s0)
           THEN LET s1 == Push(s0, e)
                IN  Done(IF s1.toastRef = NoRef THEN OnReady(s1, id) ELSE s1, "queued")
           ELSE Done(s0, "dropped")

\* mutant: hide that discards the pending requests when no driver is registered
HideDropsQueue(s, user) ==
  IF s.toastRef # NoRef
  THEN HideToast(s, s.toastRef, [defined |-> TRUE, user |-> user])
  ELSE [s EXCEPT !.queue = <<>>]

\* ToastManagerSingleton.hide; user = 0 when no callback is passed
Hide(s, user) ==
  IF s.toastRef # NoRef
  THEN HideToast(s, s.toastRef, [defined |-> TRUE, user |-> user])
  ELSE s

(******************** the controller of managers/ToastManager **************)
\* The repository holds a second ToastManagerSingleton, the one of
\* managers/ToastManager, which components/Toast, components/Toaster and
\* hooks/useToast import.  Its handlers are given here as operators on the
\* same state record; the component's handlers are those of components/Toast,
\* which have the text of the ones above and call this controller.

\* ToastManagerSingleton.setToastRef of managers/ToastManager
AltSetToastRef(s, ref) == [s EXCEPT !.toastRef = ref]

\* ToastManagerSingleton.setAnimating of managers/ToastManager
AltSetAnimating(s, status) == [s EXCEPT !.isAnimating = status]

\* updateAnimationStatus of components/Toast
AltUpdateAnimationStatus(s, c, status) ==
  AltSetAnimating([s EXCEPT !.comp[c].isAnimating = status], status)

\* showToast of components/Toast
AltShowToast(s, c, text, type) ==
  IF text = <<>> \/ Trim(text) = <<>>
  THEN AltUpdateAnimationStatus(s, c, FALSE)
  ELSE LET s1 == [s EXCEPT !.comp[c] = CancelTransY(ClearTimer(@))]
           s2 == AltUpdateAnimationStatus(s1, c, TRUE)
       IN  [s2 EXCEPT !.comp[c].visible = TRUE,
                      !.comp[c].text = text,
                      !.comp[c].ticks = @ + 1]

\* refObject.show of components/Toast
AltRefShow(s, c, message, type) ==
  IF message = <<>> \/ Trim(message) = <<>>
  THEN AltUpdateAnimationStatus(s, c, FALSE)
  ELSE AltShowToast(s, c, message, type)

\* ToastManagerSingleton.processQueue of managers/ToastManager
RECURSIVE AltProcessQueue(_)
AltProcessQueue(s) ==
  IF ~s.isAnimating /\ Len(s.queue) > 0 /\ s.toastRef # NoRef
  THEN LET nextToast == Head(s.queue)
           s1 == [s EXCEPT !.queue = Tail(@)]
       IN  IF nextToast.message # <<>> /\ Trim(nextToast.message) # <<>>
           THEN LET s2 == [s1 EXCEPT !.isAnimating = TRUE, !.lastToastTime = s1.now]
                IN  AltRefShow(LogDisplay(s2, nextToast, TRUE), s2.toastRef,
                               nextToast.message, nextToast.type)
           ELSE AltProcessQueue(s1)
  ELSE s

\* the callback ToastManagerSingleton.hide of managers/ToastManager hands to
\* toastRef.hide
AltWrappedCallback(s, user, finished) ==
  LET s1 == [s EXCEPT !.isAnimating = FALSE]
      s2 == IF user # 0
            THEN [s1 EXCEPT !.callbacks = Append(@, [id |-> user, finished |-> finished])]
            ELSE s1
  IN  AltProcessQueue(s2)

\* hideToast of components/Toast
AltHideToast(s, c, cb) ==
  LET cs == s.comp[c]
  IN  IF ~cs.isAnimating /\ cs.transY = "off"
      THEN IF cb.defined THEN AltWrappedCallback(s, cb.user, TRUE) ELSE s
      ELSE LET c1 == IF cs.timer # "null" THEN [cs EXCEPT !.timer = "null"] ELSE cs
               c2 == CancelTransY(c1)
           IN  [s EXCEPT !.comp[c] = [c2 EXCEPT !.anim = [kind |-> "exit", cb |-> cb]]]

\* ToastManagerSingleton.hide of managers/ToastManager
AltHide(s, user) ==
  IF s.toastRef # NoRef
  THEN AltHideToast(s, s.toastRef, [defined |-> TRUE, user |-> user])
  ELSE s

\* ToastManagerSingleton.show of managers/ToastManager.  The outcome is
\* "admitted" when the request is handed to toastRef.show and "dropped" when
\* the call returns without displaying it: this controller never enqueues.
AltShow(s, message, type) ==
  LET id == s.nextId
      e  == [id |-> id, message |-> message, type |-> type]
      s0 == [s EXCEPT !.nextId = @ + 1]
      Done(r, outcome) ==
        [r EXCEPT !.lastOp = [op |-> "show", outcome |-> outcome,
                              blank |-> Trim(message) = <<>>]]
  IN  IF message = <<>> \/ Trim(message) = <<>>
      THEN Done(s, "ignored")
      ELSE IF s0.now - s0.lastToastTime < THROTTLE_DELAY \/ s0.isAnimating
      THEN Done(s0, "dropped")
      ELSE LET s1 == [s0 EXCEPT !.lastToastTime = s0.now]
           IN  IF s1.toastRef # NoRef
               THEN LET s2 == [s1 EXCEPT !.isAnimating = TRUE]
                    IN  Done(AltRefShow(LogDisplay(s2, e, FALSE), s2.toastRef,
                                        message, type), "admitted")
               ELSE Done(s1, "dropped")


(********************************* actions *********************************)
\* the controller after construction, before any component exists
InitController ==
  /\ toastRef = NoRef
  /\ listeners = {}
  /\ isAnimating = FALSE
  /\ queue = <<>>
  /\ lastToastTime = 0
  /\ now = THROTTLE_DELAY
  /\ nextId = 1
  /\ nextCb = 1
  /\ lastDrained = 0
  /\ lastOp = Op("init", "")
  /\ displays = <<>>
  /\ callbacks = <<>>
  /\ notifications = <<>>
  /\ setAnimatingCalls = <<>>
  /\ lastDisplay = [id |-> 0, at |-> 0]
  /\ retracted = 0
  /\ processQueueCalls = <<>>

Init ==
  /\ InitController
  /\ comp = [c \in Comps |-> InitComp]

\* the application calls ToastManager.show (directly or through useToast)
Request ==
  \E message \in Msgs, type \in ReqTypes :
    /\ nextId <= MaxReq
    /\ Commit(Show(Cur, message, type))

\* the application calls ToastManager.hide, with or without a callback
Dismiss ==
  \E withCb \in BOOLEAN :
    /\ nextCb <= MaxDismiss
    /\ LET user == IF withCb THEN nextCb ELSE 0
           s0   == [Cur EXCEPT !.nextCb = @ + 1]
           s1   == Hide(s0, user)
       IN  Commit([s1 EXCEPT !.lastOp = Op("hide", IF withCb THEN "callback" ELSE "")])

\* a Toast component mounts (the ref callback of Toaster, the effect of Toast):
\* ToastManager.setToastRef(ref)
Register(c) ==
  /\ comp[c].mounted # "unmounted"
  /\ LET s0 == [Cur EXCEPT !.comp[c].mounted = "mounted"]
         s1 == SetToastRef(s0, c)
     IN  Commit([s1 EXCEPT !.lastOp = Op("setToastRef", "ref")])

\* mutant: a cleanup that also clears the component's pending timers
UnregisterClearsTimers(c) ==
  /\ comp[c].mounted = "mounted"
  /\ LET s0 == [Cur EXCEPT !.comp[c].mounted = "unmounted",
                           !.comp[c].timer = "null",
                           !.comp[c].orphans = 0,
                           !.comp[c].ticks = 0]
         s1 == SetToastRef(s0, NoRef)
     IN  Commit([s1 EXCEPT !.lastOp = Op("setToastRef", "null")])

\* a Toast component unmounts: the cleanup of its effect calls
\* ToastManager.setToastRef(null)
Unregister(c) ==
  /\ comp[c].mounted = "mounted"
  /\ LET s0 == [Cur EXCEPT !.comp[c].mounted = "unmounted"]
         s1 == SetToastRef(s0, NoRef)
     IN  Commit([s1 EXCEPT !.lastOp = Op("setToastRef", "null")])

\* the setTimeout(..., 0) callback of showToast: start the entry transition
\* and arm the auto-dismiss timer
Tick(c) ==
  /\ comp[c].ticks > 0
  /\ LET cs == comp[c]
         c1 == CancelTransY(cs)
         c2 == [c1 EXCEPT !.ticks = @ - 1,
                          !.anim = [kind |-> "enter", cb |-> NoCb],
                          !.transY = IF @ = "off" THEN "mid" ELSE @,
                          !.orphans = IF cs.timer = "live" THEN @ + 1 ELSE @,
                          !.timer = "live"]
     IN  Commit([Cur EXCEPT !.comp[c] = c2,
                            !.lastOp = Op("tick", "")])

\* withTiming(80) reaches its target
EnterComplete(c) ==
  /\ comp[c].anim.kind = "enter"
  /\ comp[c].ticks = 0
  /\ Commit([Cur EXCEPT !.comp[c].anim = NoAnim,
                        !.comp[c].transY = "on",
                        !.lastOp = Op("enterComplete", "")])

\* an auto-dismiss timer expires: hideToast().  The outcome "early" tells
\* that it expired before the entry transition had reached its target.
TimerFire(c) ==
  \E which \in {"current", "orphan"} :
    /\ which = "current" => comp[c].timer = "live"
    /\ which = "orphan" => comp[c].orphans > 0
    /\ LET s0 == IF which = "current"
                 THEN [Cur EXCEPT !.comp[c].timer = "dead"]
                 ELSE [Cur EXCEPT !.comp[c].orphans = @ - 1]
           s1 == HideToast(s0, c, NoCb)
       IN  Commit([s1 EXCEPT !.lastOp =
                     Op("timer", IF Lifecycle(comp[c]) = "Entering" THEN "early" ELSE "")])

\* withTiming(-100) reaches its target: its callback runs completeHideAnimation
ExitComplete(c) ==
  /\ comp[c].anim.kind = "exit"
  /\ comp[c].ticks = 0
  /\ LET cb == comp[c].anim.cb
         s0 == [Cur EXCEPT !.comp[c].anim = NoAnim, !.comp[c].transY = "off",
                           !.retracted = lastDisplay.id]
         s1 == CompleteHideAnimation(s0, c, cb, TRUE)
     IN  Commit([s1 EXCEPT !.lastOp = Op("exitComplete", IF cb.defined THEN "hide" ELSE "timer")])

\* the callback of a cancelled exit animation runs completeHideAnimation
CancelledCallback(c) ==
  /\ comp[c].cancelled # <<>>
  /\ LET cb == Head(comp[c].cancelled)
         s0 == [Cur EXCEPT !.comp[c].cancelled = Tail(@)]
         s1 == CompleteHideAnimation(s0, c, cb, FALSE)
     IN  Commit([s1 EXCEPT !.lastOp = Op("cancelledCallback", "")])

\* time passes
Advance ==
  /\ now + THROTTLE_DELAY <= MaxTime
  /\ Commit([Cur EXCEPT !.now = @ + THROTTLE_DELAY, !.lastOp = Op("advance", "")])

Next ==
  \/ Request
  \/ Dismiss
  \/ \E c \in Comps : Register(c)
  \/ \E c \in Comps : Unregister(c)
  \/ \E c \in Comps : Tick(c)
  \/ \E c \in Comps : EnterComplete(c)
  \/ \E c \in Comps : TimerFire(c)
  \/ \E c \in Comps : ExitComplete(c)
  \/ \E c \in Comps : CancelledCallback(c)
  \/ Advance

Spec == Init /\ [][Next]_vars

\* The timers and the animations of the component run to their end: a
\* pending setTimeout callback eventually runs, an animation that is not
\* cancelled eventually reaches its target, a cancelled animation's callback
\* is eventually delivered.  The application's calls and the clock are not
\* under any obligation.
\* For the two completion callbacks weak fairness is written out,
\* WF_vars(A) == []<>~ENABLED <<A>>_vars \/ []<><<A>>_vars, with the guard of
\* the action for ENABLED <<A>>_vars (the action removes the animation or the
\* cancelled callback it is about, so it changes vars whenever its guard
\* holds) and the handler name the action leaves in lastOp for <<A>>_vars.
CompletionPending(c, op) ==
  IF op = "exitComplete"
  THEN comp[c].anim.kind = "exit" /\ comp[c].ticks = 0
  ELSE comp[c].cancelled # <<>>

Fairness ==
  \A c \in Comps :
    /\ WF_vars(Tick(c))
    /\ WF_vars(EnterComplete(c))
    /\ WF_vars(TimerFire(c))
    /\ \A op \in {"exitComplete", "cancelledCallback"} :
         []<>(~CompletionPending(c, op)) \/ []<><<lastOp'.op = op>>_vars

FairSpec == Spec /\ Fairness

(********************************* remount *********************************)
\* The Toast component is unmounted and a new instance of it is mounted: the
\* new instance has its own state, refs and shared values, and registers its
\* own ref object; the timers and animations the old instance has started
\* are not cleared by its cleanup and still call the controller.
Instances == {"c1", "c2"}

RemountInit ==
  /\ InitController
  /\ comp = [c \in Instances |-> InitComp]

\* instance c mounts; the second instance mounts after the first was unmounted
Mount(c) ==
  /\ c = "c2" => comp["c1"].mounted = "unmounted"
  /\ Register(c)

\* ToastManager.show in a run with a remount
RemountRequest ==
  /\ nextId <= MaxRemountReq
  /\ Request

RemountNext ==
  \/ RemountRequest
  \/ Dismiss
  \/ \E c \in Instances : Mount(c)
  \/ \E c \in Instances : Unregister(c)
  \/ \E c \in Instances : Tick(c)
  \/ \E c \in Instances : EnterComplete(c)
  \/ \E c \in Instances : TimerFire(c)
  \/ \E c \in Instances : ExitComplete(c)
  \/ \E c \in Instances : CancelledCallback(c)
  \/ Advance

RemountSpec == RemountInit /\ [][RemountNext]_vars

\* Fairness for both instances.  A completion step of instance c is the one
\* that leaves the handler name in lastOp and changes the state of c.
RemountFairness ==
  \A c \in Instances :
    /\ WF_vars(Tick(c))
    /\ WF_vars(EnterComplete(c))
    /\ WF_vars(TimerFire(c))
    /\ \A op \in {"exitComplete", "cancelledCallback"} :
         \/ []<>(~CompletionPending(c, op))
         \/ []<><<lastOp'.op = op /\ comp'[c] # comp[c]>>_vars

RemountFairSpec == RemountSpec /\ RemountFairness


(********************************* claims **********************************)
Controller == <<toastRef, isAnimating, lastToastTime, queue, listeners>>
QueueIds(q) == {q[i].id : i \in 1..Len(q)}
Range(f) == {f[i] : i \in 1..Len(f)}

\* C1: no toastRef.show call is made while a toast displayed earlier is
\* still entering, visible or exiting.
C1_NoDisplayWhileInProgress ==
  \A i \in 1..Len(displays) : ~displays[i].overlap

\* C2: whenever a toast is entering, visible or exiting, the controller's
\* isAnimating flag is true.
C2_BusyWhileInProgress ==
  (\E c \in Comps : Lifecycle(comp[c]) # "Hidden") => isAnimating

C4_Fifo ==
  /\ [](/\ \A i \in 1..Len(queue) : queue[i].id > lastDrained
        /\ \A i, j \in 1..Len(queue) : i < j => queue[i].id < queue[j].id
        /\ \A i, j \in 1..Len(displays) :
             (i < j /\ displays[i].queued /\ displays[j].queued)
               => displays[i].id < displays[j].id)
  /\ [][\A id \in QueueIds(queue) \ QueueIds(queue') :
          \E i \in 1..Len(displays') : displays'[i].queued /\ displays'[i].id = id]_vars

\* two requests were enqueued; the older one has been displayed from the
\* queue and the younger one still waits
C4_Witness ==
  /\ Len(displays) = 1
  /\ displays[1].queued
  /\ Len(queue) > 0
  /\ displays[1].id < queue[1].id

\* C5: when the retraction started by the auto-dismiss timer completes with a
\* driver registered and a non-empty queue, that handler displays the oldest
\* queued request and removes it from the queue.
C5_AutoDrain ==
  [][(lastOp' = Op("exitComplete", "timer") /\ toastRef # NoRef /\ queue # <<>>)
       => /\ Len(displays') = 1
          /\ displays'[1].id = Head(queue).id
          /\ displays'[1].message = Head(queue).message
          /\ displays'[1].queued
          /\ queue' = Tail(queue)
          /\ isAnimating'
          /\ Lifecycle(comp'[toastRef]) = "Entering"]_vars

C5_Witness ==
  lastOp = Op("exitComplete", "timer") /\ Len(displays) = 1 /\ displays[1].queued

\* C6: a show call whose message is empty or whitespace-only changes no
\* controller state and makes no toastRef.show call.
C6_EmptyMessageIgnored ==
  [][(lastOp'.op = "show" /\ lastOp'.blank)
       => (UNCHANGED Controller /\ displays' = <<>>)]_vars

C6_Witness == lastOp.op = "show" /\ lastOp.blank /\ toastRef # NoRef /\ ~isAnimating

\* C7: after setToastRef(null) the controller holds no driver.
C7_UnregisterClearsDriver ==
  [][(lastOp'.op = "setToastRef" /\ lastOp'.outcome = "null") => toastRef' = NoRef]_vars

\* C8: setToastRef(ref) invokes every pending readiness waiter exactly once
\* and empties the waiter set; when no driver was registered before and the
\* queue is not empty, it displays the oldest queued request and leaves the
\* others queued in order.
C8_RegisterNotifiesAndDrains ==
  [][(lastOp'.op = "setToastRef" /\ lastOp'.outcome = "ref")
       => /\ listeners' = {}
          /\ Range(notifications') = listeners
          /\ Len(notifications') = Cardinality(listeners)
          /\ (toastRef = NoRef /\ queue # <<>>)
               => /\ Len(displays') = 1
                  /\ displays'[1].id = Head(queue).id
                  /\ displays'[1].queued
                  /\ ~displays'[1].overlap
                  /\ queue' = Tail(queue)]_vars

\* three requests without a driver (two queued, the third dropped), then the
\* registration: the first is displayed, the second stays queued
C8_Witness ==
  /\ lastOp.op = "setToastRef"
  /\ notifications = <<1, 2>>
  /\ nextId = 4
  /\ Len(displays) = 1 /\ displays[1].id = 1
  /\ Len(queue) = 1 /\ queue[1].id = 2

C10_CallbackAfterExit ==
  \A i \in 1..Len(callbacks) : callbacks[i].finished

\* the step is a show call with a valid message; its request has id nextId
ValidShow == lastOp'.op = "show" /\ ~lastOp'.blank

\* the step appends the request of this step to the tail of the queue
Appended ==
  /\ Len(queue') = Len(queue) + 1
  /\ SubSeq(queue', 1, Len(queue)) = queue
  /\ queue'[Len(queue')].id = nextId
  /\ queue'[Len(queue')].message \in Msgs
  /\ queue'[Len(queue')].type \in ReqTypes

\* the number of toastRef.show calls of this step made for request id
DisplaysOf(id) == Cardinality({i \in 1..Len(displays') : displays'[i].id = id})

\* C11: a show call with a valid message has exactly one of three outcomes:
\* the request is handed to toastRef.show once by that call and not queued,
\* or it is appended to the queue and not displayed, or it is dropped
\* (neither queued nor displayed); no other request is displayed or leaves
\* or enters the queue in that call.
C11_OneOutcome ==
  [][ValidShow =>
       LET shown    == DisplaysOf(nextId)
           enqueued == Cardinality({i \in 1..Len(queue') : queue'[i].id = nextId})
       IN  /\ shown + enqueued <= 1
           /\ Len(displays') = shown
           /\ shown = 1 => (~displays'[1].queued /\ queue' = queue)
           /\ enqueued = 1 => Appended
           /\ (shown = 0 /\ enqueued = 0) => queue' = queue
           /\ lastOp'.outcome = (IF shown = 1 THEN "admitted"
                                  ELSE IF enqueued = 1 THEN "queued" ELSE "dropped")]_vars

\* a request admitted at once while two throttled requests wait in the queue
C11_Witness ==
  /\ lastOp.op = "show"
  /\ lastOp.outcome = "admitted"
  /\ Len(displays) = 1
  /\ displays[1].id = nextId - 1
  /\ Len(queue) = MAX_QUEUE_SIZE

C13_AdmitNow ==
  [][(ValidShow /\ now - lastToastTime >= THROTTLE_DELAY /\ ~isAnimating
        /\ toastRef # NoRef)
       => /\ isAnimating'
          /\ lastToastTime' = now
          /\ queue' = queue
          /\ toastRef' = toastRef
          /\ listeners' = listeners
          /\ Len(displays') = 1
          /\ displays'[1].id = nextId
          /\ ~displays'[1].queued
          /\ displays'[1].message \in Msgs
          /\ isValidToastRequest(displays'[1].message)
          /\ displays'[1].type \in ReqTypes
          /\ comp'[toastRef].text = displays'[1].message
          /\ comp'[toastRef].ticks = comp[toastRef].ticks + 1]_vars

\* a request admitted at a time later than the previous admission
C13_Witness ==
  /\ lastOp.op = "show"
  /\ lastOp.outcome = "admitted"
  /\ isAnimating
  /\ lastToastTime = now
  /\ now > THROTTLE_DELAY
  /\ Len(displays) = 1
  /\ displays[1].id > 1

C15_AdmissionsApart ==
  [][(ValidShow /\ DisplaysOf(nextId) > 0)
       => (lastDisplay.id = 0 \/ now - lastDisplay.at >= THROTTLE_DELAY)]_vars

\* a request admitted at once after an earlier request was displayed from the
\* queue
C15_Witness ==
  /\ lastOp.op = "show"
  /\ lastOp.outcome = "admitted"
  /\ Len(displays) = 1
  /\ lastDrained > 0
  /\ displays[1].id > lastDrained
  /\ lastDisplay = [id |-> displays[1].id, at |-> now]

\* C16: a setAnimating(false) call made while a driver is registered and the
\* queue is not empty displays the oldest queued request, and only it, leaves
\* the other requests queued in order and returns with isAnimating true; a
\* setAnimating(true) call makes no toastRef.show call.
C16_SetAnimatingDrains ==
  \A i \in 1..Len(setAnimatingCalls) :
    LET call == setAnimatingCalls[i]
    IN  /\ call.status => (call.displayed = <<>> /\ call.busy)
        /\ (~call.status /\ call.waiting # 0)
             => /\ call.displayed = <<call.waiting>>
                /\ call.queue = call.rest
                /\ call.busy
        /\ (~call.status /\ call.waiting = 0) => (call.displayed = <<>> /\ ~call.busy)

\* a handler called setAnimating(false) with a request waiting, and the
\* display of that request called setAnimating(true)
C16_Witness ==
  /\ Len(setAnimatingCalls) = 2
  /\ setAnimatingCalls[1].status
  /\ ~setAnimatingCalls[2].status
  /\ setAnimatingCalls[2].waiting # 0
  /\ setAnimatingCalls[2].displayed = <<setAnimatingCalls[2].waiting>>
  /\ queue # <<>>

\* C17: a hide call made while no driver is registered leaves toastRef,
\* isAnimating, lastToastTime, the queue and the readiness waiters unchanged,
\* makes no toastRef.show call and changes no component.
C17_DismissWithoutDriver ==
  [][(lastOp'.op = "hide" /\ toastRef = NoRef)
       => /\ UNCHANGED Controller
          /\ displays' = <<>>
          /\ comp' = comp]_vars

\* hide(callback) called with no driver while two requests and their waiters
\* are pending
C17_Witness ==
  /\ lastOp = Op("hide", "callback")
  /\ toastRef = NoRef
  /\ Len(queue) = MAX_QUEUE_SIZE
  /\ Cardinality(listeners) = MAX_QUEUE_SIZE

\* the handler that ran last handed request id to toastRef.show
Displayed(id) == \E i \in 1..Len(displays) : displays[i].id = id

\* the application has called the controller after request id was displayed
ControllerCalled(id) ==
  lastOp.op \in {"show", "hide", "setToastRef"} /\ ~Displayed(id)

\* the component presents the toast of request id in lifecycle state l
Presents(id, l) ==
  /\ lastDisplay.id = id
  /\ toastRef # NoRef
  /\ Lifecycle(comp[toastRef]) = l

\* an auto-dismiss timer has expired during an entry transition (a display
\* duration shorter than the animation duration)
TimerEarly == lastOp = Op("timer", "early")

\* C18: under fairness of the scheduling tick, the auto-dismiss timer and
\* the animation callbacks, every request handed to toastRef.show is
\* eventually presented Visible and from there its exit transition eventually
\* completes, unless the application calls the controller again in between or
\* an auto-dismiss timer expires before the entry transition is complete.
C18_DisplayCompletes ==
  \A id \in 1..MaxReq :
    /\ [](Displayed(id)
           => <>(Presents(id, "Visible") \/ ControllerCalled(id) \/ TimerEarly))
    /\ [](Presents(id, "Visible")
           => <>(retracted = id \/ ControllerCalled(id)))

\* C19: when the exit transition started by hide(callback) completes with a
\* driver registered and n >= 1 requests in the queue, that handler displays
\* exactly one request, the oldest, and leaves the other n - 1 queued in order.
C19_OneDrainedAfterDismiss ==
  [][(lastOp' = Op("exitComplete", "hide") /\ toastRef # NoRef /\ queue # <<>>)
       => /\ Len(displays') = 1
          /\ displays'[1].id = Head(queue).id
          /\ queue' = Tail(queue)]_vars

\* C20: in the handler that completes the exit transition started by
\* hide(callback), no queued request is handed to toastRef.show before the
\* caller's callback has been invoked.
C20_CallbackBeforeDrain ==
  (lastOp = Op("exitComplete", "hide") /\ callbacks # <<>>)
    => \A i \in 1..Len(displays) : displays[i].after >= 1

\* C21: a component's lifecycle moves only Hidden -> Entering (by a display),
\* Entering -> Visible (entry completion), Visible -> Exiting (timer expiry or
\* hide) and Exiting -> Hidden (exit completion), and no toastRef.show call is
\* made while a toast is in progress.  A handler that completes the exit and
\* displays the next queued request passes through Hidden inside the handler,
\* so its step Exiting -> Entering is the composition of two legal moves.
C21_LifecycleOrder ==
  [][/\ \A i \in 1..Len(displays') : ~displays'[i].overlap
     /\ \A c \in Comps :
          LET from == Lifecycle(comp[c])
              to   == Lifecycle(comp'[c])
          IN  \/ from = to
              \/ from = "Hidden" /\ to = "Entering" /\ displays' # <<>>
              \/ from = "Entering" /\ to = "Visible" /\ lastOp'.op = "enterComplete"
              \/ from = "Visible" /\ to = "Exiting" /\ lastOp'.op \in {"timer", "hide"}
              \/ from = "Exiting" /\ to = "Hidden" /\ lastOp'.op = "exitComplete"
              \/ from = "Exiting" /\ to = "Entering" /\ lastOp'.op = "exitComplete"
                   /\ displays' # <<>>]_vars

\* C22: nothing armed by an earlier display survives the start of a new
\* display or of a dismiss: at most one auto-dismiss timer is pending, at
\* most one deferred entry tick is pending and none while the toast is
\* exiting, and no callback of a cancelled exit animation is waiting to run.
C22_NoStaleCallbacks ==
  \A c \in Comps :
    /\ (IF comp[c].timer = "live" THEN 1 ELSE 0) + comp[c].orphans <= 1
    /\ comp[c].ticks <= 1
    /\ ~(comp[c].anim.kind = "exit" /\ comp[c].ticks > 0)
    /\ comp[c].cancelled = <<>>

\* C23: a processQueue call made while isAnimating is true, or no driver is
\* registered, or the queue is empty, changes no controller field and makes
\* no toastRef.show call; any other call (the head entry's message being
\* valid) removes exactly the head entry, leaves the rest of the queue in
\* order, sets isAnimating, sets lastToastTime to the current time, and calls
\* toastRef.show once, for that entry.
C23_ProcessQueueContract ==
  \A i \in 1..Len(processQueueCalls) :
    LET call == processQueueCalls[i]
        b    == call.before
        a    == call.after
    IN  IF b.isAnimating \/ b.toastRef = NoRef \/ b.queue = <<>>
        THEN a = b /\ call.displayed = <<>>
        ELSE isValidToastRequest(Head(b.queue).message)
               => /\ a.queue = Tail(b.queue)
                  /\ a.isAnimating
                  /\ a.lastToastTime = call.now
                  /\ a.toastRef = b.toastRef
                  /\ a.listeners = b.listeners
                  /\ Len(call.displayed) = 1
                  /\ call.displayed[1].id = Head(b.queue).id
                  /\ call.displayed[1].message = Head(b.queue).message
                  /\ call.displayed[1].type = Head(b.queue).type

\* a handler made a processQueue call that displayed the head of a queue of
\* two, and afterwards one that found the controller busy
C23_Witness ==
  \E i, j \in 1..Len(processQueueCalls) :
    /\ i < j
    /\ Len(processQueueCalls[i].before.queue) = MAX_QUEUE_SIZE
    /\ Len(processQueueCalls[i].displayed) = 1
    /\ processQueueCalls[j].before.isAnimating
    /\ processQueueCalls[j].before.queue # <<>>
    /\ processQueueCalls[j].displayed = <<>>

\* C24: a valid show call that finds the queue at capacity and is throttled,
\* or finds the controller busy or without a driver, is dropped: toastRef,
\* isAnimating, lastToastTime, the queue and the readiness waiters are
\* unchanged, no toastRef.show call is made and no component changes.
C24_DropIsSilent ==
  [][(ValidShow /\ Len(queue) >= MAX_QUEUE_SIZE
        /\ (now - lastToastTime < THROTTLE_DELAY \/ isAnimating \/ toastRef = NoRef))
       => /\ UNCHANGED Controller
          /\ displays' = <<>>
          /\ notifications' = <<>>
          /\ comp' = comp]_vars

\* a request dropped by the branch taken when the controller is busy, not
\* throttled, with a driver registered
C24_Witness ==
  /\ lastOp.op = "show"
  /\ lastOp.outcome = "dropped"
  /\ toastRef # NoRef
  /\ isAnimating
  /\ now - lastToastTime >= THROTTLE_DELAY
  /\ Len(queue) = MAX_QUEUE_SIZE

\* C25: every entry of the queue has a message that is not empty after
\* trim(), and every processQueue call that takes an entry from the queue
\* finds a valid message in it (the branch that skips an entry is not taken).
C25_QueueHoldsValidMessages ==
  /\ \A i \in 1..Len(queue) : Trim(queue[i].message) # <<>>
  /\ \A i \in 1..Len(processQueueCalls) :
       LET b == processQueueCalls[i].before
       IN  (~b.isAnimating /\ b.toastRef # NoRef /\ b.queue # <<>>)
             => /\ Head(b.queue).message # <<>>
                /\ Trim(Head(b.queue).message) # <<>>

\* an empty or whitespace-only request was made while requests are queued,
\* and an entry has been taken from the queue earlier
C25_Witness ==
  /\ lastOp.op = "show"
  /\ lastOp.blank
  /\ queue # <<>>
  /\ lastDrained > 0

\* a component has been unmounted
Unmounted == \E c \in Comps : comp[c].mounted = "unmounted"

\* C26: under fairness of the component's tick, timers and animation
\* callbacks, a request that is in the queue while a driver is registered is
\* eventually handed to toastRef.show, unless the component is unmounted.
C26_NoStrandedRequest ==
  \A id \in 1..MaxReq :
    []((id \in QueueIds(queue) /\ toastRef # NoRef) => <>(Displayed(id) \/ Unmounted))

\* C27: a show call never hands its request to toastRef.show while the queue
\* holds an earlier request: whenever a valid show call displays its own
\* request in that call, the queue was empty before the call.
C27_NoOvertaking ==
  [][(ValidShow /\ DisplaysOf(nextId) > 0) => queue = <<>>]_vars

\* the ids of the requests handed to toastRef.show in this step
DisplayedIds == {displays'[i].id : i \in 1..Len(displays')}

\* C28: each request is displayed at most once and only after it was
\* admitted or enqueued.  Stated step by step: the queue holds distinct ids
\* of requests already made; ids are issued once, in increasing order, to
\* valid show calls only; a toastRef.show call of a step is either for the
\* request of that very show call, which is not queued by it, or for a
\* request that was in the queue and leaves it in that step; no id is
\* displayed twice in a step; the only id that can enter the queue is the
\* one of the show call of the step; and an id that leaves the queue is
\* displayed in that step.  Hence an id that was dropped, or was displayed,
\* is never in the queue again and is never displayed again.
C28_DisplayedAtMostOnce ==
  /\ [](/\ \A i, j \in 1..Len(queue) : queue[i].id = queue[j].id => i = j
        /\ \A i \in 1..Len(queue) : queue[i].id \in 1..(nextId - 1))
  /\ [][/\ nextId' = (IF ValidShow THEN nextId + 1 ELSE nextId)
        /\ Cardinality(DisplayedIds) = Len(displays')
        /\ \A id \in DisplayedIds :
             \/ /\ ValidShow
                /\ id = nextId
                /\ id \notin QueueIds(queue')
             \/ /\ id \in QueueIds(queue)
                /\ id \notin QueueIds(queue')
        /\ QueueIds(queue') \subseteq
             (QueueIds(queue) \cup (IF ValidShow THEN {nextId} ELSE {}))
        /\ (QueueIds(queue) \ QueueIds(queue')) \subseteq DisplayedIds]_vars

\* one step has taken two requests from the queue and handed each of them to
\* toastRef.show, after a later request had been dropped
C28_Witness ==
  /\ Len(displays) = 2
  /\ displays[1].id # displays[2].id
  /\ displays[1].queued /\ displays[2].queued
  /\ queue = <<>>
  /\ nextId > displays[2].id + 1

\* C29: under fairness of the tick, timers and animation callbacks of both
\* instances, isAnimating never stays true forever, also when the first
\* instance is unmounted, or unmounted and replaced by the second, while its
\* toast is in flight.
C29_BusyEnds ==
  [](isAnimating => <>(~isAnimating))

\* the second instance has just registered while the toast of the first,
\* unmounted, instance is still in flight and a request waits in the queue
C29_Witness ==
  /\ lastOp.op = "setToastRef"
  /\ lastOp.outcome = "ref"
  /\ toastRef = "c2"
  /\ comp["c1"].mounted = "unmounted"
  /\ Lifecycle(comp["c1"]) # "Hidden"
  /\ Lifecycle(comp["c2"]) = "Hidden"
  /\ isAnimating
  /\ queue # <<>>

\* what the claim compares after a call: the decision of a show call, the
\* toastRef.show calls made, isAnimating, the queue and the driver
Observed(s) ==
  [decision    |-> s.lastOp.outcome,
   shown       |-> [i \in 1..Len(s.displays) |-> s.displays[i].id],
   isAnimating |-> s.isAnimating,
   queue       |-> s.queue,
   toastRef    |-> s.toastRef]

\* C30: in every reachable state, each call of show, hide, setToastRef and
\* setAnimating has the same outcome with the controller of src/Toast.tsx
\* and with the controller of managers/ToastManager: the same decision, the
\* same toastRef.show calls, and the same isAnimating, queue and toastRef
\* afterwards.
C30_SameController ==
  /\ \A message \in Msgs, type \in ReqTypes :
       Observed(Show(Cur, message, type)) = Observed(AltShow(Cur, message, type))
  /\ \A user \in 0..MaxDismiss :
       Observed(Hide(Cur, user)) = Observed(AltHide(Cur, user))
  /\ \A ref \in Comps \cup {NoRef} :
       Observed(SetToastRef(Cur, ref)) = Observed(AltSetToastRef(Cur, ref))
  /\ \A status \in BOOLEAN :
       Observed(SetAnimating(Cur, status)) = Observed(AltSetAnimating(Cur, status))

\* C31: the set of readiness waiters is empty whenever a driver is
\* registered and never holds more than MAX_QUEUE_SIZE waiters; a waiter is
\* added only by a valid show call made while no driver is registered, which
\* appends its request to the queue, and the waiter added is the one of that
\* request.
C31_WaitersBounded ==
  /\ [](/\ toastRef # NoRef => listeners = {}
        /\ Cardinality(listeners) <= MAX_QUEUE_SIZE)
  /\ [][~(listeners' \subseteq listeners)
          => /\ ValidShow
             /\ toastRef = NoRef
             /\ Appended
             /\ listeners' = listeners \cup {nextId}]_vars

\* MAX_QUEUE_SIZE waiters are registered, and a further valid request made
\* without a driver has been dropped without adding one
C31_Witness ==
  /\ toastRef = NoRef
  /\ Cardinality(listeners) = MAX_QUEUE_SIZE
  /\ lastOp.op = "show"
  /\ lastOp.outcome = "dropped"

====
